---- MODULE Spec2Model ----
(***************************************************************************)
(* A model of the currency formatter of src/formatter.go.                  *)
(*                                                                         *)
(* A string is a sequence of glyphs, each glyph a one-element TLA+ string: *)
(* "0".."9", ".", ";", "-", "+" are the ASCII characters of the patterns   *)
(* and of Amount.Number(); "cur" is the currency placeholder U+00A4;       *)
(* "sp", "nbsp", "nnbsp" are white space (U+0020, U+00A0, U+202F); "rlm",  *)
(* "lrm", "alm" are directional marks; "arab0".."tibt9" are the glyphs of  *)
(* the localDigits tables.                                                 *)
(***************************************************************************)
EXTENDS Integers, Sequences, FiniteSets, TLC

VARIABLES pc, requested, loc, f, amount, out, majorDigits, groups, i, grouped

vars == <<pc, requested, loc, f, amount, out, majorDigits, groups, i, grouped>>

(***************************************************************************)
(* Bounds of the model.                                                    *)
(***************************************************************************)
\* Longest integer part handed to groupMajorDigits in SpecGroup.
MaxLen == 7
\* Largest primary / secondary grouping size drawn in SpecGroup.
MaxSize == 3
\* Largest minGroupingDigits drawn in SpecGroup.
MaxMinGrouping == 2
\* Cap on the groups the loop of groupMajorDigits may append in the model.
MaxGroups == 10

(***************************************************************************)
(* Program constants.                                                      *)
(***************************************************************************)
DisplaySymbol == 0
DisplayCode == 1
DisplayNone == 2
DefaultDigits == 255
\* f.MaxDigits = 6 in NewFormatter.
NewMaxDigits == 6

(***************************************************************************)
(* The strings package, on glyph sequences.                                *)
(***************************************************************************)
AsciiDigits == <<"0", "1", "2", "3", "4", "5", "6", "7", "8", "9">>

IsAsciiDigit(g) == \E k \in 1..10 : AsciiDigits[k] = g

DigitVal(g) == CHOOSE k \in 0..9 : AsciiDigits[k + 1] = g

\* strconv.Itoa, for the values localizeDigits passes (0..9).
Itoa(n) == <<AsciiDigits[n + 1]>>

\* unicode.IsSpace, on the glyphs of the model.
WhiteSpace == {"sp", "nbsp", "nnbsp"}

HasPrefix(s, p) == Len(p) <= Len(s) /\ SubSeq(s, 1, Len(p)) = p

\* strings.Split(s, sep) for a one-glyph separator.
RECURSIVE Split(_, _)
Split(s, sep) ==
    LET hits == {k \in 1..Len(s) : s[k] = sep} IN
    IF hits = {} THEN <<s>>
    ELSE LET k == CHOOSE k \in hits : \A j \in hits : k <= j IN
         <<SubSeq(s, 1, k - 1)>> \o Split(SubSeq(s, k + 1, Len(s)), sep)

\* strings.Join(parts, sep).
RECURSIVE Join(_, _)
Join(parts, sep) ==
    IF parts = <<>> THEN <<>>
    ELSE IF Len(parts) = 1 THEN parts[1]
    ELSE parts[1] \o sep \o Join(Tail(parts), sep)

\* strings.TrimRight(s, g) for a one-glyph cutset.
RECURSIVE TrimRight(_, _)
TrimRight(s, g) ==
    IF s # <<>> /\ s[Len(s)] = g THEN TrimRight(SubSeq(s, 1, Len(s) - 1), g) ELSE s

\* strings.Repeat(g, n) for a one-glyph string.
Repeat(g, n) == [k \in 1..n |-> g]

RECURSIVE TrimLeftSpace(_)
TrimLeftSpace(s) ==
    IF s # <<>> /\ s[1] \in WhiteSpace THEN TrimLeftSpace(Tail(s)) ELSE s

RECURSIVE TrimRightSpace(_)
TrimRightSpace(s) ==
    IF s # <<>> /\ s[Len(s)] \in WhiteSpace
    THEN TrimRightSpace(SubSeq(s, 1, Len(s) - 1)) ELSE s

\* strings.TrimSpace.
TrimSpace(s) == TrimRightSpace(TrimLeftSpace(s))

\* strings.NewReplacer(pairs...).Replace(s): one pass from the left, at each
\* place the first pair whose old string starts there, the replacement never
\* scanned again.  pairs is a sequence of <<old, new>>.
RECURSIVE Replace(_, _)
Replace(pairs, s) ==
    IF s = <<>> THEN <<>>
    ELSE LET hits == {k \in 1..Len(pairs) : HasPrefix(s, pairs[k][1])} IN
         IF hits = {} THEN <<Head(s)>> \o Replace(pairs, Tail(s))
         ELSE LET k == CHOOSE k \in hits : \A j \in hits : k <= j IN
              pairs[k][2] \o Replace(pairs, SubSeq(s, Len(pairs[k][1]) + 1, Len(s)))

\* The slice expression s[low:high] of Go (0-based, high excluded).
Slice(s, low, high) == SubSeq(s, low + 1, high)

RECURSIVE Reverse(_)
Reverse(s) == IF s = <<>> THEN <<>> ELSE Reverse(Tail(s)) \o <<Head(s)>>

(***************************************************************************)
(* Amount: a decimal number with a currency code.  neg is the sign, int    *)
(* the digits before the decimal point, frac the digits after it.          *)
(***************************************************************************)
USD == <<"U", "S", "D">>
\* A code the currency metadata does not know.
ZZZ == <<"Z", "Z", "Z">>

Codes == {USD, ZZZ}

IsZero(a) == \A k \in 1..Len(a.int \o a.frac) : (a.int \o a.frac)[k] = "0"

\* Amount.IsNegative.
IsNegative(a) == a.neg /\ ~IsZero(a)

\* Amount.Mul("-1").
MulMinusOne(a) == [a EXCEPT !.neg = ~a.neg /\ ~IsZero(a)]

\* Amount.CurrencyCode.
CurrencyCode(a) == a.cur

\* A digit string plus one.
RECURSIVE Increment(_)
Increment(d) ==
    IF d = <<>> THEN <<"1">>
    ELSE LET last == d[Len(d)]
             front == SubSeq(d, 1, Len(d) - 1) IN
         IF last = "9" THEN Increment(front) \o <<"0">>
         ELSE front \o <<AsciiDigits[DigitVal(last) + 2]>>

\* Amount.RoundTo(digits): half away from zero; the result has exactly
\* `digits` fraction digits.
RoundTo(a, digits) ==
    IF Len(a.frac) <= digits
    THEN [a EXCEPT !.frac = a.frac \o Repeat("0", digits - Len(a.frac))]
    ELSE LET kept == a.int \o SubSeq(a.frac, 1, digits)
             up == DigitVal(a.frac[digits + 1]) >= 5
             all == IF up THEN Increment(kept) ELSE kept IN
         [a EXCEPT !.int = SubSeq(all, 1, Len(all) - digits),
                   !.frac = SubSeq(all, Len(all) - digits + 1, Len(all))]

\* Amount.Number(): the fixed-point decimal string.
Number(a) ==
    (IF a.neg THEN <<"-">> ELSE <<>>) \o a.int
        \o (IF a.frac = <<>> THEN <<>> ELSE <<".">> \o a.frac)

\* GetDigits(currencyCode): the currency's fraction digits, 0 when unknown.
GetDigits(code) == IF code = USD THEN 2 ELSE 0

(***************************************************************************)
(* Locale.                                                                 *)
(***************************************************************************)
NewLocale(language, region) == [Language |-> language, Region |-> region]

EmptyLocale == NewLocale("", "")

\* Locale.IsEmpty.
IsEmpty(l) == l.Language = ""

\* Locale.String.
String(l) == IF l.Region = "" THEN l.Language ELSE l.Language \o "-" \o l.Region

\* Locale.GetParent.
GetParent(l) == IF l.Region # "" THEN NewLocale(l.Language, "") ELSE EmptyLocale

\* GetSymbol(currencyCode, locale): the symbol of the currency in the locale,
\* empty when the metadata has none.
GetSymbol(code, l) ==
    IF code = USD
    THEN IF String(l) \in {"en", "en-US", "es-US", "ur"} THEN <<"$">>
         ELSE <<"U", "S", "$">>
    ELSE <<>>

(***************************************************************************)
(* The format table: the rule set of each locale that has one.             *)
(***************************************************************************)
RuleSet(pat, minG, prim, sec, numsys, dec, grp, plus, minus) ==
    [pattern |-> pat, minGroupingDigits |-> minG,
     primaryGroupingSize |-> prim, secondaryGroupingSize |-> sec,
     numberingSystem |-> numsys, decimalSeparator |-> dec,
     groupingSeparator |-> grp, plusSign |-> plus, minusSign |-> minus]

\* The zero value of currencyFormat; numLatn is the zero numbering system.
ZeroFormat == RuleSet(<<>>, 0, 0, 0, "latn", <<>>, <<>>, <<>>, <<>>)

currencyFormats ==
    ("en" :> RuleSet(<<"cur", "0", ".", "0", "0">>,
                     1, 3, 3, "latn", <<".">>, <<",">>, <<"+">>, <<"-">>))
    @@ ("bn" :> RuleSet(<<"0", ".", "0", "0", "cur">>,
                     1, 3, 2, "beng", <<".">>, <<",">>, <<"+">>, <<"-">>))
    @@ ("ar" :> RuleSet(<<"rlm", "0", ".", "0", "0", "nbsp", "cur", ";",
                          "rlm", "-", "0", ".", "0", "0", "nbsp", "cur">>,
                     1, 3, 3, "arab", <<"arabdec">>, <<"arabgrp">>,
                     <<"alm", "+">>, <<"alm", "-">>))
    @@ ("es" :> RuleSet(<<"0", ".", "0", "0", "nbsp", "cur">>,
                     2, 3, 3, "latn", <<",">>, <<".">>, <<"+">>, <<"-">>))
    @@ ("ur" :> RuleSet(<<"cur", "nbsp", "0", ".", "0", "0">>,
                     1, 3, 3, "latn", <<".">>, <<",">>,
                     <<"lrm", "+">>, <<"lrm", "-">>))
    @@ ("de-CH" :> RuleSet(<<"cur", "nbsp", "0", ".", "0", "0", ";",
                             "cur", "-", "0", ".", "0", "0">>,
                     1, 3, 3, "latn", <<".">>, <<"apos">>, <<"+">>, <<"-">>))

\* The locales a Formatter is requested for.
Locales ==
    {NewLocale("en", "US"), NewLocale("en", "AU"), NewLocale("bn", ""),
     NewLocale("ar", "EG"), NewLocale("es", ""), NewLocale("ur", ""),
     NewLocale("de", "CH"), NewLocale("zz", "ZZ"), EmptyLocale}

(***************************************************************************)
(* localDigits: the ten glyphs of each numbering system but latn.          *)
(***************************************************************************)
localDigits ==
    [arab |-> <<"arab0", "arab1", "arab2", "arab3", "arab4",
                "arab5", "arab6", "arab7", "arab8", "arab9">>,
     arabext |-> <<"arabext0", "arabext1", "arabext2", "arabext3", "arabext4",
                   "arabext5", "arabext6", "arabext7", "arabext8", "arabext9">>,
     beng |-> <<"beng0", "beng1", "beng2", "beng3", "beng4",
                "beng5", "beng6", "beng7", "beng8", "beng9">>,
     deva |-> <<"deva0", "deva1", "deva2", "deva3", "deva4",
                "deva5", "deva6", "deva7", "deva8", "deva9">>,
     mymr |-> <<"mymr0", "mymr1", "mymr2", "mymr3", "mymr4",
                "mymr5", "mymr6", "mymr7", "mymr8", "mymr9">>,
     tibt |-> <<"tibt0", "tibt1", "tibt2", "tibt3", "tibt4",
                "tibt5", "tibt6", "tibt7", "tibt8", "tibt9">>]

(***************************************************************************)
(* Formatter.                                                              *)
(***************************************************************************)
\* A map[string]string with no key.
EmptyMap == [c \in {} |-> <<>>]

\* &Formatter{}: every field at its zero value.
ZeroFormatter ==
    [locale |-> EmptyLocale, format |-> ZeroFormat, NoGrouping |-> FALSE,
     MinDigits |-> 0, MaxDigits |-> 0, CurrencyDisplay |-> DisplaySymbol,
     SymbolMap |-> EmptyMap]

\* CLDR considers "en" and "en-US" to be equivalent.
enUS(l) == IF l = NewLocale("en", "US") THEN NewLocale("en", "") ELSE l

\* minDigits and maxDigits of formatNumber: the option, or the currency's digits.
effectiveDigits(option, a) ==
    IF option = DefaultDigits THEN GetDigits(CurrencyCode(a)) ELSE option

\* A mutant of newOptions: MinDigits left at its zero value.
newOptionsNoMinDigits(fm) ==
    [fm EXCEPT !.MaxDigits = NewMaxDigits, !.SymbolMap = EmptyMap]

\* The options NewFormatter sets after the loop.
newOptions(fm) ==
    [fm EXCEPT !.MinDigits = DefaultDigits, !.MaxDigits = NewMaxDigits,
               !.SymbolMap = EmptyMap]

\* A mutant of getPattern: the sign is read off the rounded amount.
getPatternOfRounded(fm, a) ==
    LET patterns == Split(fm.format.pattern, ";")
        rounded == RoundTo(a, effectiveDigits(fm.MaxDigits, a)) IN
    IF IsNegative(rounded)
    THEN IF Len(patterns) = 1 THEN <<"-">> \o patterns[1] ELSE patterns[2]
    ELSE patterns[1]

\* getPattern: the positive or the negative pattern of the amount.
getPattern(fm, a) ==
    LET patterns == Split(fm.format.pattern, ";") IN
    IF IsNegative(a)
    THEN IF Len(patterns) = 1 THEN <<"-">> \o patterns[1] ELSE patterns[2]
    ELSE patterns[1]

\* A mutant of formatCurrency: an empty SymbolMap entry counts as no entry.
formatCurrencyNonEmpty(fm, currencyCode) ==
    IF fm.CurrencyDisplay = DisplaySymbol
    THEN IF currencyCode \in DOMAIN fm.SymbolMap /\ fm.SymbolMap[currencyCode] # <<>>
         THEN fm.SymbolMap[currencyCode]
         ELSE GetSymbol(currencyCode, fm.locale)
    ELSE IF fm.CurrencyDisplay = DisplayCode THEN currencyCode
    ELSE <<>>

\* formatCurrency.
formatCurrency(fm, currencyCode) ==
    IF fm.CurrencyDisplay = DisplaySymbol
    THEN IF currencyCode \in DOMAIN fm.SymbolMap
         THEN fm.SymbolMap[currencyCode]
         ELSE GetSymbol(currencyCode, fm.locale)
    ELSE IF fm.CurrencyDisplay = DisplayCode THEN currencyCode
    ELSE <<>>

\* The locals of groupMajorDigits.
minDigits(fm) == fm.format.minGroupingDigits

primarySize(fm) == fm.format.primaryGroupingSize

\* A mutant of secondarySize: every group has the primary size.
secondarySizeIsPrimary(fm) == fm.format.primaryGroupingSize

secondarySize(fm) == fm.format.secondaryGroupingSize

\* The two early returns of groupMajorDigits.
ungrouped(fm, digits) ==
    \/ fm.NoGrouping
    \/ fm.format.primaryGroupingSize = 0
    \/ Len(digits) < minDigits(fm) + primarySize(fm)

\* low of the loop body: i - secondarySize, not below 0.
low(idx, size) == IF idx - size < 0 THEN 0 ELSE idx - size

\* The loop of groupMajorDigits, from index idx with the groups gs so far.
RECURSIVE groupLoop(_, _, _, _)
groupLoop(digits, idx, size, gs) ==
    IF idx > 0
    THEN groupLoop(digits, idx - size, size,
                   Append(gs, Slice(digits, low(idx, size), idx)))
    ELSE gs

\* groupMajorDigits.
groupMajorDigits(fm, digits) ==
    IF ungrouped(fm, digits) THEN digits
    ELSE LET numDigits == Len(digits)
             first == <<Slice(digits, numDigits - primarySize(fm), numDigits)>>
             gs == groupLoop(digits, numDigits - primarySize(fm),
                             secondarySize(fm), first) IN
         Join(Reverse(gs), fm.format.groupingSeparator)

\* A mutant of localizeDigits: the digit 0 is left out of the replacements.
localizeDigitsFromOne(fm, number) ==
    IF fm.format.numberingSystem = "latn" THEN number
    ELSE LET digits == IF fm.format.numberingSystem \in DOMAIN localDigits
                       THEN localDigits[fm.format.numberingSystem] ELSE <<>>
             replacements == [k \in 1..(Len(digits) - 1) |->
                                 <<Itoa(k), <<digits[k + 1]>>>>] IN
         Replace(replacements, number)

\* localizeDigits.
localizeDigits(fm, number) ==
    IF fm.format.numberingSystem = "latn" THEN number
    ELSE LET digits == IF fm.format.numberingSystem \in DOMAIN localDigits
                       THEN localDigits[fm.format.numberingSystem] ELSE <<>>
             replacements == [k \in 1..Len(digits) |-> <<Itoa(k - 1), <<digits[k]>>>>] IN
         Replace(replacements, number)

\* numberParts of formatNumber: the rounded number split at the decimal point.
numberParts(fm, a) ==
    LET rounded == RoundTo(a, effectiveDigits(fm.MaxDigits, a))
        parts == Split(Number(rounded), ".") IN
    IF Len(parts) = 1 THEN Append(parts, <<>>) ELSE parts

\* A mutant of minorDigits: the zeroes stripped are never added back.
minorDigitsNoPad(fm, a) ==
    LET minD == effectiveDigits(fm.MinDigits, a)
        maxD == effectiveDigits(fm.MaxDigits, a)
        minor == numberParts(fm, a)[2] IN
    IF minD < maxD THEN TrimRight(minor, "0") ELSE minor

\* A mutant of minorDigits: zeroes are added up to minDigits whatever maxDigits.
minorDigitsAlwaysPad(fm, a) ==
    LET minD == effectiveDigits(fm.MinDigits, a)
        maxD == effectiveDigits(fm.MaxDigits, a)
        minor == numberParts(fm, a)[2]
        stripped == IF minD < maxD THEN TrimRight(minor, "0") ELSE minor IN
    IF Len(stripped) < minD
    THEN stripped \o Repeat("0", minD - Len(stripped))
    ELSE stripped

\* minorDigits of formatNumber, trailing zeroes stripped down to minDigits.
minorDigits(fm, a) ==
    LET minD == effectiveDigits(fm.MinDigits, a)
        maxD == effectiveDigits(fm.MaxDigits, a)
        minor == numberParts(fm, a)[2]
        stripped == TrimRight(minor, "0") IN
    IF minD < maxD
    THEN IF Len(stripped) < minD
         THEN stripped \o Repeat("0", minD - Len(stripped))
         ELSE stripped
    ELSE minor

\* formatNumber.
formatNumber(fm, a) ==
    LET major == groupMajorDigits(fm, numberParts(fm, a)[1])
        minor == minorDigits(fm, a)
        b == major \o (IF minor # <<>>
                       THEN fm.format.decimalSeparator \o minor ELSE <<>>) IN
    localizeDigits(fm, b)

\* A mutant of magnitude: the amount keeps its sign.
magnitudeSigned(a) == a

\* The amount Format formats: negated when negative.
magnitude(a) == IF IsNegative(a) THEN MulMinusOne(a) ELSE a

\* Format: its locals and its result.
Format(fm, a) ==
    LET pattern == getPattern(fm, a)
        amt == magnitude(a)
        formattedNumber == formatNumber(fm, amt)
        formattedCurrency == formatCurrency(fm, CurrencyCode(amt))
        replacements == << <<<<"0", ".", "0", "0">>, formattedNumber>>,
                           <<<<"cur">>, formattedCurrency>>,
                           <<<<"+">>, fm.format.plusSign>>,
                           <<<<"-">>, fm.format.minusSign>> >>
        formattedAmount == Replace(replacements, pattern) IN
    [pattern |-> pattern,
     minorDigits |-> minorDigits(fm, amt),
     formattedNumber |-> formattedNumber,
     formattedCurrency |-> formattedCurrency,
     formattedAmount |-> IF formattedCurrency = <<>>
                         THEN TrimSpace(formattedAmount) ELSE formattedAmount]

(***************************************************************************)
(* The inputs.                                                             *)
(***************************************************************************)
IntParts ==
    {<<"0">>, <<"1", "0">>, <<"9", "9", "9">>,
     <<"1", "2", "3", "4", "5", "6", "7">>}

FracParts ==
    {<<>>, <<"5">>, <<"5", "0">>, <<"0", "0">>, <<"0", "0", "1">>,
     <<"9", "9", "5">>}

\* The amounts rendered; zero is never negative.
Amounts ==
    {a \in [neg : BOOLEAN, int : IntParts, frac : FracParts, cur : Codes] :
        a.neg => ~IsZero(a)}

\* The values the caller gives the options.
MinDigitsValues == {0, 2, DefaultDigits}

MaxDigitsValues == {0, 2, NewMaxDigits, DefaultDigits}

DisplayValues == {DisplaySymbol, DisplayCode, DisplayNone, 3, 255}

SymbolMaps == {EmptyMap, [c \in {USD} |-> <<>>], [c \in {USD} |-> <<"U", "$">>]}

\* No amount, no result: outside a call of Format.
NoAmount == [neg |-> FALSE, int |-> <<>>, frac |-> <<>>, cur |-> <<>>]

NoOut ==
    [pattern |-> <<>>, minorDigits |-> <<>>, formattedNumber |-> <<>>,
     formattedCurrency |-> <<>>, formattedAmount |-> <<>>]

(***************************************************************************)
(* NewFormatter, one action per way through an iteration of its loop.      *)
(***************************************************************************)
Init ==
    /\ pc = "new"
    /\ requested \in Locales
    /\ loc = requested
    /\ f = [ZeroFormatter EXCEPT !.locale = requested]
    /\ amount = NoAmount
    /\ out = NoOut
    /\ majorDigits = <<>>
    /\ groups = <<>>
    /\ i = 0
    /\ grouped = <<>>

\* The table has the locale: bind its rule set, leave the loop, set the options.
NewFormatterFound ==
    /\ pc = "new"
    /\ String(enUS(loc)) \in DOMAIN currencyFormats
    /\ f' = newOptions([f EXCEPT !.format = currencyFormats[String(enUS(loc))]])
    /\ loc' = enUS(loc)
    /\ pc' = "ready"
    /\ UNCHANGED <<requested, amount, out, majorDigits, groups, i, grouped>>

\* The table has no such locale and the parent is not empty: go round again.
NewFormatterParent ==
    /\ pc = "new"
    /\ String(enUS(loc)) \notin DOMAIN currencyFormats
    /\ ~IsEmpty(GetParent(enUS(loc)))
    /\ loc' = GetParent(enUS(loc))
    /\ UNCHANGED <<pc, requested, f, amount, out, majorDigits, groups, i, grouped>>

\* The table has no such locale and the parent is empty: leave the loop with
\* the zero rule set, set the options.
NewFormatterEmpty ==
    /\ pc = "new"
    /\ String(enUS(loc)) \notin DOMAIN currencyFormats
    /\ IsEmpty(GetParent(enUS(loc)))
    /\ loc' = GetParent(enUS(loc))
    /\ f' = newOptions(f)
    /\ pc' = "ready"
    /\ UNCHANGED <<requested, amount, out, majorDigits, groups, i, grouped>>

(***************************************************************************)
(* The caller sets an option between two calls of Format.                  *)
(***************************************************************************)
SetNoGrouping ==
    /\ pc = "ready"
    /\ \E b \in BOOLEAN : f' = [f EXCEPT !.NoGrouping = b]
    /\ UNCHANGED <<pc, requested, loc, amount, out, majorDigits, groups, i, grouped>>

SetMinDigits ==
    /\ pc = "ready"
    /\ \E d \in MinDigitsValues : f' = [f EXCEPT !.MinDigits = d]
    /\ UNCHANGED <<pc, requested, loc, amount, out, majorDigits, groups, i, grouped>>

SetMaxDigits ==
    /\ pc = "ready"
    /\ \E d \in MaxDigitsValues : f' = [f EXCEPT !.MaxDigits = d]
    /\ UNCHANGED <<pc, requested, loc, amount, out, majorDigits, groups, i, grouped>>

SetCurrencyDisplay ==
    /\ pc = "ready"
    /\ \E d \in DisplayValues : f' = [f EXCEPT !.CurrencyDisplay = d]
    /\ UNCHANGED <<pc, requested, loc, amount, out, majorDigits, groups, i, grouped>>

SetSymbolMap ==
    /\ pc = "ready"
    /\ \E m \in SymbolMaps : f' = [f EXCEPT !.SymbolMap = m]
    /\ UNCHANGED <<pc, requested, loc, amount, out, majorDigits, groups, i, grouped>>

(***************************************************************************)
(* Format(amount), and the caller taking its result.                       *)
(***************************************************************************)
FormatCall ==
    /\ pc = "ready"
    /\ \E a \in Amounts :
          /\ amount' = a
          /\ out' = Format(f, a)
    /\ pc' = "rendered"
    /\ UNCHANGED <<requested, loc, f, majorDigits, groups, i, grouped>>

FormatReturn ==
    /\ pc = "rendered"
    /\ pc' = "ready"
    /\ amount' = NoAmount
    /\ out' = NoOut
    /\ UNCHANGED <<requested, loc, f, majorDigits, groups, i, grouped>>

Next ==
    \/ NewFormatterFound
    \/ NewFormatterParent
    \/ NewFormatterEmpty
    \/ SetNoGrouping
    \/ SetMinDigits
    \/ SetMaxDigits
    \/ SetCurrencyDisplay
    \/ SetSymbolMap
    \/ FormatCall
    \/ FormatReturn

Spec == Init /\ [][Next]_vars

(***************************************************************************)
(* groupMajorDigits on its own, one action per step of its loop, for every *)
(* rule set within the bounds.                                             *)
(***************************************************************************)
\* The integer part of n digits: 1, 2, 3, ...
DigitString(n) == [k \in 1..n |-> AsciiDigits[(k % 10) + 1]]

GroupingSeparators == {<<",">>, <<"nbsp", "apos">>}

InitGroup ==
    /\ pc = "group"
    /\ requested = EmptyLocale
    /\ loc = EmptyLocale
    /\ \E prim \in 0..MaxSize, sec \in 0..MaxSize, minG \in 0..MaxMinGrouping,
          sep \in GroupingSeparators, b \in BOOLEAN :
          f = [newOptions(ZeroFormatter) EXCEPT
                  !.format = RuleSet(<<>>, minG, prim, sec, "latn", <<>>, sep,
                                     <<>>, <<>>),
                  !.NoGrouping = b]
    /\ amount = NoAmount
    /\ out = NoOut
    /\ \E n \in 0..MaxLen : majorDigits = DigitString(n)
    /\ groups = <<>>
    /\ i = 0
    /\ grouped = <<>>

\* Grouping is off, or the digits are too few: return them as they are.
GroupReturn ==
    /\ pc = "group"
    /\ ungrouped(f, majorDigits)
    /\ grouped' = majorDigits
    /\ pc' = "grouped"
    /\ UNCHANGED <<requested, loc, f, amount, out, majorDigits, groups, i>>

\* The primary group, and the loop's start.
GroupPrimary ==
    /\ pc = "group"
    /\ ~ungrouped(f, majorDigits)
    /\ groups' = <<Slice(majorDigits, Len(majorDigits) - primarySize(f),
                         Len(majorDigits))>>
    /\ i' = Len(majorDigits) - primarySize(f)
    /\ pc' = "loop"
    /\ UNCHANGED <<requested, loc, f, amount, out, majorDigits, grouped>>

\* One iteration of the loop: a secondary group.
GroupSecondary ==
    /\ pc = "loop"
    /\ i > 0
    /\ Len(groups) < MaxGroups
    /\ groups' = Append(groups, Slice(majorDigits, low(i, secondarySize(f)), i))
    /\ i' = i - secondarySize(f)
    /\ UNCHANGED <<pc, requested, loc, f, amount, out, majorDigits, grouped>>

\* The loop's exit: reverse the groups and join them.
GroupJoin ==
    /\ pc = "loop"
    /\ ~(i > 0)
    /\ grouped' = Join(Reverse(groups), f.format.groupingSeparator)
    /\ pc' = "grouped"
    /\ UNCHANGED <<requested, loc, f, amount, out, majorDigits, groups, i>>

NextGroup ==
    \/ GroupReturn
    \/ GroupPrimary
    \/ GroupSecondary
    \/ GroupJoin

SpecGroup == InitGroup /\ [][NextGroup]_vars

(***************************************************************************)
(* What the claims are stated with.                                        *)
(***************************************************************************)
\* A string split at every occurrence of a separator of one or more glyphs.
RECURSIVE SplitOn(_, _)
SplitOn(s, sep) ==
    LET hits == {k \in 1..(Len(s) - Len(sep) + 1) : SubSeq(s, k, k + Len(sep) - 1) = sep} IN
    IF hits = {} THEN <<s>>
    ELSE LET k == CHOOSE k \in hits : \A j \in hits : k <= j IN
         <<SubSeq(s, 1, k - 1)>> \o SplitOn(SubSeq(s, k + Len(sep), Len(s)), sep)

Contains(s, g) == \E k \in 1..Len(s) : s[k] = g

\* The groups are the digits in order, the rightmost of primaryGroupingSize
\* digits, the leftmost of 1..secondaryGroupingSize digits, every other one of
\* secondaryGroupingSize digits, with at least one separator between them.
GroupedAsSpecified(parts) ==
    /\ Len(parts) >= 2
    /\ Len(parts[Len(parts)]) = f.format.primaryGroupingSize
    /\ \A k \in 2..(Len(parts) - 1) : Len(parts[k]) = f.format.secondaryGroupingSize
    /\ Len(parts[1]) \in 1..f.format.secondaryGroupingSize
    /\ Join(parts, <<>>) = majorDigits

\* C1 as claimed: groupMajorDigits returns the digits unchanged when grouping
\* is off (NoGrouping, or a primary size of 0) or when there are fewer than
\* minGroupingDigits + primaryGroupingSize of them; otherwise, with both sizes
\* positive, it returns them with a separator primaryGroupingSize digits from
\* the right and after every further secondaryGroupingSize digits, the leftmost
\* group holding 1..secondaryGroupingSize digits.
C1_GroupingAsClaimed ==
    pc = "grouped" =>
        IF f.NoGrouping \/ f.format.primaryGroupingSize = 0
        THEN grouped = majorDigits
        ELSE f.format.secondaryGroupingSize > 0 =>
             IF Len(majorDigits) < f.format.minGroupingDigits + f.format.primaryGroupingSize
             THEN grouped = majorDigits
             ELSE GroupedAsSpecified(SplitOn(grouped, f.format.groupingSeparator))

\* C1 as amended: as claimed whenever there are more digits than the primary
\* group holds; exactly primaryGroupingSize digits (which pass the threshold
\* only when minGroupingDigits = 0) are returned unchanged, with no separator.
C1_Grouping ==
    pc = "grouped" =>
        IF f.NoGrouping \/ f.format.primaryGroupingSize = 0
        THEN grouped = majorDigits
        ELSE f.format.secondaryGroupingSize > 0 =>
             IF Len(majorDigits) < f.format.minGroupingDigits + f.format.primaryGroupingSize
             THEN grouped = majorDigits
             ELSE IF Len(majorDigits) = f.format.primaryGroupingSize
             THEN grouped = majorDigits
             ELSE GroupedAsSpecified(SplitOn(grouped, f.format.groupingSeparator))

\* Seven digits grouped 3-then-2: 12,34,567.
C1_Witness ==
    /\ pc = "grouped"
    /\ ~f.NoGrouping
    /\ f.format.primaryGroupingSize = 3
    /\ f.format.secondaryGroupingSize = 2
    /\ majorDigits = <<"1", "2", "3", "4", "5", "6", "7">>
    /\ grouped = <<"1", "2", ",", "3", "4", ",", "5", "6", "7">>

\* C8: groupMajorDigits terminates without an out-of-range slice, for every
\* rule set: each iteration of its right-to-left loop slices within the digits
\* and moves the index strictly towards 0, where the loop exits.
C8_LoopReachesExit ==
    [][(pc = "loop" /\ pc' = "loop") =>
          /\ 0 <= low(i, f.format.secondaryGroupingSize)
          /\ low(i, f.format.secondaryGroupingSize) <= i
          /\ i <= Len(majorDigits)
          /\ i' < i]_vars

\* The fraction digits the options ask for: the option, or, for the sentinel
\* 255, the digits of the amount's currency.
EffectiveMin == IF f.MinDigits = 255 THEN GetDigits(amount.cur) ELSE f.MinDigits

EffectiveMax == IF f.MaxDigits = 255 THEN GetDigits(amount.cur) ELSE f.MaxDigits

\* The amount without its sign, rounded to the effective max digits.
Abs(a) == [a EXCEPT !.neg = FALSE]

Rounded == RoundTo(Abs(amount), EffectiveMax)

\* Each ASCII digit replaced by the glyph of the rule set's numbering system.
Localized(s) ==
    [k \in 1..Len(s) |->
        IF IsAsciiDigit(s[k]) /\ f.format.numberingSystem # "latn"
        THEN localDigits[f.format.numberingSystem][DigitVal(s[k]) + 1]
        ELSE s[k]]

\* The fraction of the rounded amount without its trailing zeros, then
\* right-padded with zeros up to the effective min digits.
TrimmedFraction ==
    LET nonzero == {k \in 1..Len(Rounded.frac) : Rounded.frac[k] # "0"}
        keep == IF nonzero = {} THEN 0
                ELSE CHOOSE k \in nonzero : \A j \in nonzero : j <= k
        len == IF keep < EffectiveMin THEN EffectiveMin ELSE keep IN
    [k \in 1..len |-> IF k <= keep THEN Rounded.frac[k] ELSE "0"]

RenderedBy(id, minD, maxD, ip, fp) ==
    /\ pc = "rendered"
    /\ f.format = currencyFormats[id]
    /\ f.MinDigits = minD
    /\ f.MaxDigits = maxD
    /\ amount.int = ip
    /\ amount.frac = fp

\* C2: when the effective min digits are below the effective max digits, the
\* fraction rendered is that of the amount rounded to max digits, without its
\* trailing zeros, padded with zeros up to min digits, and the decimal
\* separator is there if and only if that fraction is not empty.  So 10.00 and
\* 10.50 with MinDigits 0 and MaxDigits 2 render 10 and 10.5, and 10.5 with
\* MinDigits 2 and MaxDigits 6 renders 10.50.
C2_TrimAndPad ==
    /\ (pc = "rendered" /\ EffectiveMin < EffectiveMax) =>
          /\ out.minorDigits = TrimmedFraction
          /\ out.formattedNumber =
                Localized(groupMajorDigits(f, Rounded.int))
                    \o (IF TrimmedFraction = <<>> THEN <<>>
                        ELSE Localized(f.format.decimalSeparator \o TrimmedFraction))
    /\ RenderedBy("en", 0, 2, <<"1", "0">>, <<"0", "0">>)
          => out.formattedNumber = <<"1", "0">>
    /\ RenderedBy("en", 0, 2, <<"1", "0">>, <<"5", "0">>)
          => out.formattedNumber = <<"1", "0", ".", "5">>
    /\ RenderedBy("en", 2, 6, <<"1", "0">>, <<"5">>)
          => out.formattedNumber = <<"1", "0", ".", "5", "0">>

\* 10.50 with MinDigits 0 and MaxDigits 2: one fraction digit.
C2_Witness ==
    /\ RenderedBy("en", 0, 2, <<"1", "0">>, <<"5", "0">>)
    /\ out.minorDigits = <<"5">>
    /\ out.formattedNumber = <<"1", "0", ".", "5">>

\* The number rendered is the grouped integer part of the rounded amount and,
\* after the decimal separator, the fraction digits out.minorDigits.
FractionIsRendered ==
    out.formattedNumber =
        Localized(groupMajorDigits(f, Rounded.int))
            \o (IF out.minorDigits = <<>> THEN <<>>
                ELSE Localized(f.format.decimalSeparator \o out.minorDigits))

\* C3 as claimed: the number of fraction digits rendered is at least the
\* effective min digits and at most the effective max digits, whatever the
\* options, the effective min above the effective max included.
C3_FloorAndCeilingAsClaimed ==
    pc = "rendered" =>
        /\ FractionIsRendered
        /\ EffectiveMin <= Len(out.minorDigits)
        /\ Len(out.minorDigits) <= EffectiveMax

\* C3 as amended: the number of fraction digits rendered is at most the
\* effective max digits; it is at least the effective min digits when the
\* effective min does not exceed the effective max, and exactly the effective
\* max digits when it does.
C3_FloorAndCeiling ==
    pc = "rendered" =>
        /\ FractionIsRendered
        /\ Len(out.minorDigits) <= EffectiveMax
        /\ EffectiveMin <= EffectiveMax => EffectiveMin <= Len(out.minorDigits)
        /\ EffectiveMin > EffectiveMax => Len(out.minorDigits) = EffectiveMax

\* MinDigits 2 above MaxDigits 0: no fraction digit is rendered.
C3_Witness ==
    /\ pc = "rendered"
    /\ f.MinDigits = 2
    /\ f.MaxDigits = 0
    /\ amount.frac = <<"5">>
    /\ out.minorDigits = <<>>

\* The sub-patterns of the rule set's pattern.
SubPatterns == SplitOn(f.format.pattern, <<";">>)

PositivePattern == SubPatterns[1]

NegativePattern ==
    IF Len(SubPatterns) = 1 THEN <<"-">> \o SubPatterns[1] ELSE SubPatterns[2]

\* The pattern with the number, the currency and the signs put in.
Substituted(pattern, number, currency) ==
    Replace(<< <<<<"0", ".", "0", "0">>, number>>, <<<<"cur">>, currency>>,
               <<<<"+">>, f.format.plusSign>>, <<<<"-">>, f.format.minusSign>> >>,
            pattern)

\* C4: an amount other than zero and its negation are rendered with the same
\* number and the same currency, those of the magnitude, put into the positive
\* sub-pattern for the positive one and into the negative sub-pattern (the
\* second one, or the minus placeholder before the only one) for the negative
\* one; the minus placeholder becomes the rule set's minusSign, and the number
\* itself holds no sign.
C4_SignFromPattern ==
    (pc = "rendered" /\ ~IsZero(amount)) =>
        /\ out.formattedNumber = formatNumber(f, Abs(amount))
        /\ out.formattedCurrency = formatCurrency(f, amount.cur)
        /\ ~Contains(out.formattedNumber, "-")
        /\ out.pattern = IF amount.neg THEN NegativePattern ELSE PositivePattern
        /\ LET put == Substituted(out.pattern, out.formattedNumber, out.formattedCurrency) IN
           out.formattedAmount = IF out.formattedCurrency = <<>> THEN TrimSpace(put) ELSE put
        /\ (amount.neg /\ Len(SubPatterns) = 1 /\ out.formattedCurrency # <<>>)
              => HasPrefix(out.formattedAmount, f.format.minusSign)

\* -10.50 USD for en-US: the minus sign, then what 10.50 USD renders.
C4_Witness ==
    /\ pc = "rendered"
    /\ amount.neg
    /\ Len(SubPatterns) = 1
    /\ out.formattedAmount = <<"-", "$", "1", "0", ".", "5", "0">>

\* C5: the currency rendered is, in symbol mode, the SymbolMap entry of the
\* code when the map has that key (an empty entry included) and otherwise the
\* metadata's symbol for the code in the locale the Formatter was requested
\* for; in code mode the code; in every other mode the empty string.
C5_Currency ==
    pc = "rendered" =>
        out.formattedCurrency =
            IF f.CurrencyDisplay = 0
            THEN IF amount.cur \in DOMAIN f.SymbolMap THEN f.SymbolMap[amount.cur]
                 ELSE GetSymbol(amount.cur, requested)
            ELSE IF f.CurrencyDisplay = 1 THEN amount.cur
            ELSE <<>>

\* Symbol mode with an empty override for USD, in a locale resolved by fallback
\* whose own symbol for USD is not that of the fallback locale.
C5_Witness ==
    /\ pc = "rendered"
    /\ f.CurrencyDisplay = 0
    /\ amount.cur = USD
    /\ f.SymbolMap = [c \in {USD} |-> <<>>]
    /\ out.formattedCurrency = <<>>
    /\ requested # loc
    /\ GetSymbol(USD, requested) # GetSymbol(USD, loc)

\* The pattern without the currency placeholder and the white space next to it.
WithoutCurrency(pattern) ==
    LET hits == {k \in 1..Len(pattern) : pattern[k] = "cur"} IN
    IF hits = {} THEN pattern
    ELSE LET k == CHOOSE k \in hits : TRUE IN
         TrimRightSpace(SubSeq(pattern, 1, k - 1))
             \o TrimLeftSpace(SubSeq(pattern, k + 1, Len(pattern)))

\* C6: when the currency rendered is empty, the result neither starts nor ends
\* with white space, and none of the white space next to the currency
\* placeholder of the sub-pattern is left in it.
C6_NoDanglingSpace ==
    (pc = "rendered" /\ out.formattedCurrency = <<>>) =>
        /\ out.formattedAmount = TrimSpace(out.formattedAmount)
        /\ out.formattedAmount =
              Substituted(WithoutCurrency(out.pattern), out.formattedNumber, <<>>)

\* The fallback walk of a locale: the locale, its parent, and so on, up to
\* the last one before the empty locale.
RECURSIVE Chain(_)
Chain(l) == <<l>> \o (IF IsEmpty(GetParent(l)) THEN <<>> ELSE Chain(GetParent(l)))

\* The identifier looked up for a locale of the walk: en for en-US.
Key(l) == IF String(l) = "en-US" THEN "en" ELSE String(l)

\* The table's entry of the first locale of the walk that has one, the zero
\* rule set when none has.
FirstInTable(l) ==
    LET hits == {k \in 1..Len(Chain(l)) : Key(Chain(l)[k]) \in DOMAIN currencyFormats} IN
    IF hits = {} THEN ZeroFormat
    ELSE currencyFormats[Key(Chain(l)[CHOOSE k \in hits : \A j \in hits : k <= j])]

\* How far a locale is from the empty locale.
Depth(l) == (IF l.Language = "" THEN 0 ELSE 1) + (IF l.Region = "" THEN 0 ELSE 1)

\* C7: NewFormatter terminates (each further iteration of its loop is at a
\* locale nearer the empty one); from then on the rule set bound is the
\* table's entry of the first locale of the requested locale's fallback walk
\* that has one, or the zero rule set, and the locale kept is the requested
\* one; and it returns with MinDigits 255, MaxDigits 6, NoGrouping false,
\* CurrencyDisplay symbol and an empty SymbolMap.
C7_Resolution ==
    /\ [](pc \in {"ready", "rendered"} =>
             /\ f.format = FirstInTable(requested)
             /\ f.locale = requested)
    /\ [][(pc = "new" /\ pc' = "new") => Depth(loc') < Depth(loc)]_vars
    /\ [][(pc = "new" /\ pc' = "ready") =>
             /\ f'.MinDigits = 255
             /\ f'.MaxDigits = 6
             /\ f'.NoGrouping = FALSE
             /\ f'.CurrencyDisplay = 0
             /\ DOMAIN f'.SymbolMap = {}]_vars

\* en-AU has no entry of its own and is bound to the rule set of en.
C7_Witness ==
    /\ pc = "ready"
    /\ requested = NewLocale("en", "AU")
    /\ loc = NewLocale("en", "")
    /\ f.format = currencyFormats["en"]
    /\ f.locale = requested
    /\ f.MinDigits = 255
    /\ f.MaxDigits = 6

\* The number as the rule set renders it with Western Arabic digits.
PlainNumber == formatNumber([f EXCEPT !.format.numberingSystem = "latn"], Abs(amount))

\* C9: with a numbering system other than latn, each ASCII digit d of the
\* number is rendered as the d-th glyph of the numbering system, every other
\* glyph (the separators) as it is, and the result holds no ASCII digit; with
\* latn the number is rendered as it is, in ASCII digits.
C9_LocalDigits ==
    pc = "rendered" =>
        IF f.format.numberingSystem = "latn"
        THEN /\ out.formattedNumber = PlainNumber
             /\ \A k \in 1..Len(out.formattedNumber) :
                   \/ IsAsciiDigit(out.formattedNumber[k])
                   \/ Contains(f.format.decimalSeparator \o f.format.groupingSeparator,
                               out.formattedNumber[k])
        ELSE /\ out.formattedNumber = Localized(PlainNumber)
             /\ \A k \in 1..Len(out.formattedNumber) :
                   ~IsAsciiDigit(out.formattedNumber[k])
             /\ \A k \in 1..Len(out.formattedAmount) :
                   ~IsAsciiDigit(out.formattedAmount[k])

\* 1234567 grouped 3-then-2 in Bengali digits.
C9_Witness ==
    /\ pc = "rendered"
    /\ f.format.numberingSystem = "beng"
    /\ ~f.NoGrouping
    /\ f.MaxDigits = 0
    /\ out.formattedNumber = <<"beng1", "beng2", ",", "beng3", "beng4", ",",
                               "beng5", "beng6", "beng7">>

\* No digit of the number but 0, in ASCII or in the rule set's numbering system.
AllZero(number) ==
    \A k \in 1..Len(number), d \in 2..10 :
        /\ number[k] # AsciiDigits[d]
        /\ number[k] # Localized(<<AsciiDigits[d]>>)[1]

\* The glyphs of sub occur in s, one after the other.
ContainsSeq(s, sub) ==
    \E k \in 1..(Len(s) - Len(sub) + 1) : SubSeq(s, k, k + Len(sub) - 1) = sub

\* C10: the sub-pattern is chosen by the sign of the amount as given, before
\* it is rounded: a negative amount is rendered in the negative sub-pattern,
\* with the minus sign, also when it rounds to zero and the number rendered is
\* all zeros; an amount of zero is rendered in the positive sub-pattern and
\* holds no minus glyph.
C10_SignBeforeRounding ==
    pc = "rendered" =>
        /\ amount.neg =>
              /\ out.pattern = NegativePattern
              /\ IsZero(Rounded) => AllZero(out.formattedNumber)
              /\ Contains(NegativePattern, "-")
                    => ContainsSeq(out.formattedAmount, f.format.minusSign)
        /\ IsZero(amount) =>
              /\ out.pattern = PositivePattern
              /\ ~Contains(out.formattedAmount, "-")

\* -0.001 USD with MaxDigits 2 for en-US: -$0.00.
C10_Witness ==
    /\ pc = "rendered"
    /\ amount.neg
    /\ amount.int = <<"0">>
    /\ amount.frac = <<"0", "0", "1">>
    /\ f.MaxDigits = 2
    /\ out.formattedAmount = <<"-", "$", "0", ".", "0", "0">>

====
